---- MODULE Spec2Model ----
(***************************************************************************)
(* Model of src/plugin.rs of bevy_simple_i18n: the I18nPlugin, its startup *)
(* system load_dynamic_fonts and its two Update systems                    *)
(* monitor_font_loading and update_translations (the latter registered     *)
(* twice, once per run condition).                                         *)
(*                                                                         *)
(* One tick of the Update schedule runs the three registered systems in an *)
(* order the scheduler chooses (the tuple of plugin.rs:50-54 states no     *)
(* ordering), each behind its run condition, and then applies the queued   *)
(* commands (Commands are deferred; without an ordering edge between the   *)
(* systems no sync point separates them, so the queue is applied when the  *)
(* schedule has run).                                                      *)
(*                                                                         *)
(* Strings the code splits are sequences of one-character strings.         *)
(***************************************************************************)
EXTENDS Naturals, Sequences, FiniteSets, TLC

\* ---------------------------------------------------------------- bounds
\* most locale files a family directory lists (startup model)
MaxLocales == 2
\* most locale files the whole static table lists (running model)
MaxFiles == 1
\* entities of the scene
NumEntities == 2

\* ---------------------------------------------------------------- strings
DOT == "."
EN == <<"e", "n">>
FR == <<"f", "r">>
TTF == <<"t", "t", "f">>
OTF == <<"o", "t", "f">>
EnTtf == EN \o <<DOT>> \o TTF
EnOtf == EN \o <<DOT>> \o OTF
FrTtf == FR \o <<DOT>> \o TTF
NoLocaleTtf == <<DOT>> \o TTF
FallbackTtf == <<"f", "a", "l", "l", "b", "a", "c", "k", DOT>> \o TTF

\* Option::None of an Option<String> (no string the code handles equals it)
None == <<"None">>
\* Option::None of Option<&I18nFont>
NoFont == "<none>"

\* ---------------------------------------------------------------- inputs
\* the families the build script may have found, in the order it lists them
FamilyOrder == <<"sans", "mono">>
\* file names of a family directory in the running model
FileNames == {EnTtf, FrTtf}
\* file names of a family directory in the startup model: two share the
\* text before the first separator, one has nothing before it
StartupFileNames == {EnTtf, EnOtf, FrTtf, NoLocaleTtf}
\* the directory has no list at all: the family is not in the table
Absent == <<<<"absent">>>>

RECURSIVE SeqsUpTo(_, _)
SeqsUpTo(S, n) ==
    IF n = 0 THEN {<<>>}
    ELSE LET shorter == SeqsUpTo(S, n - 1)
         IN  shorter \cup {Append(s, x) : s \in shorter, x \in S}

NoRepeat(s) == \A i, j \in 1..Len(s) : i # j => s[i] # s[j]

\* a directory lists each of its files once
LocaleLists(files, n) == {s \in SeqsUpTo(files, n) : NoRepeat(s)}

RECURSIVE TableOf(_, _)
TableOf(pick, order) ==
    IF order = <<>> THEN <<>>
    ELSE LET f == Head(order)
             rest == TableOf(pick, Tail(order))
         IN  IF pick[f] = Absent THEN rest
             ELSE <<[family |-> f, path |-> f, locales |-> pick[f]]>> \o rest

FamilySet == {FamilyOrder[i] : i \in 1..Len(FamilyOrder)}

RECURSIVE FilesIn(_)
FilesIn(table) ==
    IF table = <<>> THEN 0 ELSE Len(Head(table).locales) + FilesIn(Tail(table))

\* the static tables: one entry per family directory found, each listing at
\* most n of the files, the table at most total
FamilyTables(files, n, total) ==
    {t \in {TableOf(pick, FamilyOrder) :
              pick \in [FamilySet -> LocaleLists(files, n) \cup {Absent}]} :
        FilesIn(t) <= total}

\* ---------------------------------------------------------------- state
VARIABLES
    pc,             \* "prestartup", "update" or "aborted" (a panic at startup)
    FONT_FAMILIES,  \* the build script's static table
    font_manager,   \* FontManager.fonts: family -> FontFolder
    load_requests,  \* the paths asset_server.load was called with, in order
    loaded,         \* the handles asset_server.is_loaded answers true for
    FontsLoading,   \* the FontsLoading resource exists
    commands,       \* a remove_resource::<FontsLoading> command is queued
    existed,        \* the Local<bool> of the resource_removed condition
    locale,         \* the active locale of the I18n resource
    i18n_changed,   \* I18n was added or mutated since resource_changed last ran
    world,          \* the entities and their components
    todo,           \* the systems of Update that have not run yet this tick
    flagPrev,       \* FontsLoading as it was during the previous tick
    sigChanged,     \* resource_changed::<I18n> answered true this tick
    fired,          \* the triggers whose update_translations ran this tick
    runs,           \* how often update_translations ran this tick
    cleanPasses,    \* passes since the last change of I18n, at most 2
    scanned         \* the body of monitor_font_loading ran this tick

vars == <<pc, FONT_FAMILIES, font_manager, load_requests, loaded, FontsLoading,
          commands, existed, locale, i18n_changed, world, todo, flagPrev,
          sigChanged, fired, runs, cleanPasses, scanned>>

Systems == {"monitor", "removed", "changed"}

\* ---------------------------------------------------------------- handles
\* asset_server.load gives one handle per path
Handle(path, file) == <<path, file>>
\* Handle::default(), the font of a freshly spawned TextFont
DefaultHandle == Handle("", <<>>)
\* a font the scene layer gave the entity itself
HostHandle == Handle("host", <<>>)

\* ---------------------------------------------------------------- startup
FirstDot(s) ==
    IF \E i \in 1..Len(s) : s[i] = DOT
    THEN CHOOSE i \in 1..Len(s) :
            s[i] = DOT /\ \A j \in 1..(i - 1) : s[j] # DOT
    ELSE 0

\* str::split('.'): the pieces between the separators, never fewer than one
RECURSIVE Split(_)
Split(s) ==
    IF FirstDot(s) = 0 THEN <<s>>
    ELSE <<SubSeq(s, 1, FirstDot(s) - 1)>>
            \o Split(SubSeq(s, FirstDot(s) + 1, Len(s)))

\* font.split('.').next()
SplitNext(font) == LET pieces == Split(font)
                   IN  IF Len(pieces) = 0 THEN None ELSE pieces[1]

\* .expect("Locale is required") panics on None alone
ExpectPanics(opt) == opt = None

MapInsert(m, k, v) == [x \in DOMAIN m \cup {k} |-> IF x = k THEN v ELSE m[x]]

\* the inner loop of load_dynamic_fonts over dyn_font.locales
RECURSIVE InsertFonts(_, _, _)
InsertFonts(fonts, path, files) ==
    IF files = <<>> THEN fonts
    ELSE InsertFonts(MapInsert(fonts, SplitNext(Head(files)),
                               Handle(path, Head(files))),
                     path, Tail(files))

FontFolderOf(dyn_font) ==
    [fallback |-> Handle(dyn_font.path, FallbackTtf),
     fonts |-> InsertFonts(<<>>, dyn_font.path, dyn_font.locales)]

\* the outer loop of load_dynamic_fonts over FONT_FAMILIES
RECURSIVE InsertFamilies(_, _)
InsertFamilies(fm, table) ==
    IF table = <<>> THEN fm
    ELSE InsertFamilies(MapInsert(fm, Head(table).family,
                                  FontFolderOf(Head(table))),
                        Tail(table))

RECURSIVE PathsOf(_, _)
PathsOf(path, files) ==
    IF files = <<>> THEN <<>>
    ELSE <<Handle(path, Head(files))>> \o PathsOf(path, Tail(files))

\* the asset_server.load calls of load_dynamic_fonts, in order
RECURSIVE LoadCalls(_)
LoadCalls(table) ==
    IF table = <<>> THEN <<>>
    ELSE <<Handle(Head(table).path, FallbackTtf)>>
            \o PathsOf(Head(table).path, Head(table).locales)
            \o LoadCalls(Tail(table))

StartupPanics(table) ==
    \E i \in 1..Len(table) : \E j \in 1..Len(table[i].locales) :
        ExpectPanics(SplitNext(table[i].locales[j]))

load_dynamic_fonts ==
    /\ pc = "prestartup"
    /\ IF StartupPanics(FONT_FAMILIES)
       THEN /\ pc' = "aborted"
            /\ UNCHANGED <<font_manager, load_requests>>
       ELSE /\ pc' = "update"
            /\ font_manager' = InsertFamilies(<<>>, FONT_FAMILIES)
            /\ load_requests' = LoadCalls(FONT_FAMILIES)
    /\ UNCHANGED <<FONT_FAMILIES, loaded, FontsLoading, commands, existed,
                   locale, i18n_changed, world, todo, flagPrev, sigChanged,
                   fired, runs, cleanPasses, scanned>>

\* ---------------------------------------------------------------- monitor
\* faulty variant: the scan queries the fallback handle of every folder too
ScanIncludingFallback(fm, ld) ==
    \A family \in DOMAIN fm :
        /\ fm[family].fallback \in ld
        /\ \A l \in DOMAIN fm[family].fonts : fm[family].fonts[l] \in ld

\* the scan of monitor_font_loading: the loops return at the first handle of
\* a folder's fonts map that is not loaded
ScanFindsAllLoaded(fm, ld) ==
    \A family \in DOMAIN fm :
        \A l \in DOMAIN fm[family].fonts : fm[family].fonts[l] \in ld

\* faulty variant: the monitor removes the resource at once instead of queueing the
\* removal
monitor_removes_at_once ==
    /\ pc = "update"
    /\ "monitor" \in todo
    /\ todo' = todo \ {"monitor"}
    /\ FontsLoading' = IF FontsLoading /\ ScanFindsAllLoaded(font_manager, loaded)
                       THEN FALSE
                       ELSE FontsLoading
    /\ scanned' = FontsLoading
    /\ UNCHANGED <<pc, FONT_FAMILIES, font_manager, load_requests, loaded,
                   commands, existed, locale, i18n_changed, world,
                   flagPrev, sigChanged, fired, runs, cleanPasses>>

\* faulty variant: the monitor runs on every tick, FontsLoading or not
monitor_ungated ==
    /\ pc = "update"
    /\ "monitor" \in todo
    /\ todo' = todo \ {"monitor"}
    /\ commands' = IF ScanFindsAllLoaded(font_manager, loaded)
                   THEN TRUE
                   ELSE commands
    /\ scanned' = TRUE
    /\ UNCHANGED <<pc, FONT_FAMILIES, font_manager, load_requests, loaded,
                   FontsLoading, existed, locale, i18n_changed, world,
                   flagPrev, sigChanged, fired, runs, cleanPasses>>

\* faulty variant: the scan does not return early, the removal is queued
\* whatever it found
monitor_ignores_scan ==
    /\ pc = "update"
    /\ "monitor" \in todo
    /\ todo' = todo \ {"monitor"}
    /\ commands' = IF FontsLoading THEN TRUE ELSE commands
    /\ scanned' = FontsLoading
    /\ UNCHANGED <<pc, FONT_FAMILIES, font_manager, load_requests, loaded,
                   FontsLoading, existed, locale, i18n_changed, world,
                   flagPrev, sigChanged, fired, runs, cleanPasses>>

\* monitor_font_loading behind run_if(resource_exists::<FontsLoading>)
monitor_font_loading ==
    /\ pc = "update"
    /\ "monitor" \in todo
    /\ todo' = todo \ {"monitor"}
    /\ commands' = IF FontsLoading /\ ScanFindsAllLoaded(font_manager, loaded)
                   THEN TRUE
                   ELSE commands
    /\ scanned' = FontsLoading
    /\ UNCHANGED <<pc, FONT_FAMILIES, font_manager, load_requests, loaded,
                   FontsLoading, existed, locale, i18n_changed, world,
                   flagPrev, sigChanged, fired, runs, cleanPasses>>

\* ---------------------------------------------------------------- refresh
\* the catalog of the translation service
Translate(key, loc) ==
    IF key = "greeting" /\ loc = EN THEN "Hello"
    ELSE IF key = "greeting" /\ loc = FR THEN "Bonjour"
    ELSE key

\* the locale a label is translated for
EffectiveLocale(override, active) == IF override = None THEN active ELSE override

\* I18nText::translate
I18nTextTranslate(txt, active) ==
    Translate(txt.key, EffectiveLocale(txt.locale, active))

\* FontManager::get(family, locale)
FontManagerGet(fm, family, override, active) ==
    IF family \in DOMAIN fm
    THEN IF EffectiveLocale(override, active) \in DOMAIN fm[family].fonts
         THEN fm[family].fonts[EffectiveLocale(override, active)]
         ELSE fm[family].fallback
    ELSE DefaultHandle

\* faulty variant: the font is resolved for the active locale, whatever locale the
\* label has of its own
UpdateEntityActiveLocaleFont(ent, fm, active) ==
    IF ~ent.keyed THEN ent
    ELSE [ent EXCEPT
            !.text = I18nTextTranslate(ent, active),
            !.font = IF ent.family # NoFont
                     THEN FontManagerGet(fm, ent.family, None, active)
                     ELSE @]

\* faulty variant: the font is resolved for every label, with or without
\* I18nFont
UpdateEntityAlwaysFont(ent, fm, active) ==
    IF ~ent.keyed THEN ent
    ELSE [ent EXCEPT
            !.text = I18nTextTranslate(ent, active),
            !.font = FontManagerGet(fm, ent.family, ent.locale, active)]

\* faulty variant: the font is assigned only once the fonts are loaded
UpdateEntityFontWhenReady(ent, fm, active) ==
    IF ~ent.keyed THEN ent
    ELSE [ent EXCEPT
            !.text = I18nTextTranslate(ent, active),
            !.font = IF ent.family # NoFont /\ ~FontsLoading
                     THEN FontManagerGet(fm, ent.family, ent.locale, active)
                     ELSE @]

\* the body of the loop of update_translations, for one entity of the query
UpdateEntity(ent, fm, active) ==
    IF ~ent.keyed THEN ent
    ELSE [ent EXCEPT
            !.text = I18nTextTranslate(ent, active),
            !.font = IF ent.family # NoFont
                     THEN FontManagerGet(fm, ent.family, ent.locale, active)
                     ELSE @]

\* the loop as written, entity by entity
RECURSIVE UpdateInOrder(_, _, _, _)
UpdateInOrder(w, order, fm, active) ==
    IF order = <<>> THEN w
    ELSE UpdateInOrder(
            [w EXCEPT ![Head(order)] = UpdateEntity(w[Head(order)], fm, active)],
            Tail(order), fm, active)

\* faulty variant: a label's own locale stays the locale of the labels visited
\* after it
RECURSIVE UpdateLeakingLocale(_, _, _, _)
UpdateLeakingLocale(w, order, fm, active) ==
    IF order = <<>> THEN w
    ELSE UpdateLeakingLocale(
            [w EXCEPT ![Head(order)] = UpdateEntity(w[Head(order)], fm, active)],
            Tail(order), fm,
            IF w[Head(order)].keyed
            THEN EffectiveLocale(w[Head(order)].locale, active)
            ELSE active)

\* update_translations: the loop over the query, in the order it iterates
update_translations(w, order, fm, active) == UpdateInOrder(w, order, fm, active)

Entities == 1..NumEntities

\* the orders a query may iterate the entities in
QueryOrders == {[i \in Entities |-> p[i]] : p \in Permutations(Entities)}

\* one run of the system update_translations
RunPass(trigger) ==
    /\ \E order \in QueryOrders :
          world' = update_translations(world, order, font_manager, locale)
    /\ fired' = fired \cup {trigger}
    /\ runs' = runs + 1
    /\ cleanPasses' = IF cleanPasses < 2 THEN cleanPasses + 1 ELSE cleanPasses

SkipPass == UNCHANGED <<world, fired, runs, cleanPasses>>

\* faulty variant: the condition answers true whenever the resource is absent
ResourceAbsent(exists, local) == ~exists

\* resource_removed::<FontsLoading>: the answer of the condition
ResourceRemoved(exists, local) == ~exists /\ local
\* faulty variant: the Local<bool> is never reset
ResourceRemovedLocalSticky(exists, local) == exists \/ local

\* and its Local<bool> afterwards
ResourceRemovedLocal(exists, local) == exists

\* update_translations.run_if(resource_removed::<FontsLoading>)
update_on_removed ==
    /\ pc = "update"
    /\ "removed" \in todo
    /\ todo' = todo \ {"removed"}
    /\ existed' = ResourceRemovedLocal(FontsLoading, existed)
    /\ IF ResourceRemoved(FontsLoading, existed)
       THEN RunPass("removed")
       ELSE SkipPass
    /\ UNCHANGED <<pc, FONT_FAMILIES, font_manager, load_requests, loaded,
                   FontsLoading, commands, locale, i18n_changed, flagPrev,
                   sigChanged, scanned>>

\* faulty variant: the change of I18n counts only once the fonts are loaded
ResourceChangedWhenReady(changed) == changed /\ ~FontsLoading

\* resource_changed::<I18n>: added or mutated since the condition last ran
ResourceChanged(changed) == changed

\* update_translations.run_if(resource_changed::<I18n>)
update_on_changed ==
    /\ pc = "update"
    /\ "changed" \in todo
    /\ todo' = todo \ {"changed"}
    /\ i18n_changed' = FALSE
    /\ sigChanged' = i18n_changed
    /\ IF ResourceChanged(i18n_changed)
       THEN RunPass("changed")
       ELSE SkipPass
    /\ UNCHANGED <<pc, FONT_FAMILIES, font_manager, load_requests, loaded,
                   FontsLoading, commands, existed, locale, flagPrev, scanned>>

\* ---------------------------------------------------------------- schedule
\* faulty variant: the resource is initialised again whenever no removal is queued
ApplyCommandsReinit(exists, queued) == ~queued

\* the queued commands are applied when the schedule has run
ApplyCommands(exists, queued) == IF queued THEN FALSE ELSE exists

\* the end of a tick of Update: every system has had its turn
EndTick ==
    /\ pc = "update"
    /\ todo = {}
    /\ FontsLoading' = ApplyCommands(FontsLoading, commands)
    /\ commands' = FALSE
    /\ flagPrev' = FontsLoading
    /\ todo' = Systems
    /\ sigChanged' = FALSE
    /\ fired' = {}
    /\ runs' = 0
    /\ scanned' = FALSE
    /\ UNCHANGED <<pc, FONT_FAMILIES, font_manager, load_requests, loaded,
                   existed, locale, i18n_changed, world, cleanPasses>>

\* ---------------------------------------------------------------- host
Requested == {load_requests[i] : i \in 1..Len(load_requests)}

\* the asset service finishes a load (its events are handled between two
\* runs of Update)
AssetLoaded ==
    /\ pc = "update"
    /\ todo = Systems
    /\ \E h \in Requested \ loaded : loaded' = loaded \cup {h}
    /\ UNCHANGED <<pc, FONT_FAMILIES, font_manager, load_requests,
                   FontsLoading, commands, existed, locale, i18n_changed,
                   world, todo, flagPrev, sigChanged, fired, runs,
                   cleanPasses, scanned>>

\* the asset service drops or reloads an asset: the handle is not loaded
AssetUnloaded ==
    /\ pc = "update"
    /\ todo = Systems
    /\ \E h \in loaded : loaded' = loaded \ {h}
    /\ UNCHANGED <<pc, FONT_FAMILIES, font_manager, load_requests,
                   FontsLoading, commands, existed, locale, i18n_changed,
                   world, todo, flagPrev, sigChanged, fired, runs,
                   cleanPasses, scanned>>

\* the host mutates I18n (sets the active locale) in a system of its own
SetLocale ==
    /\ pc = "update"
    /\ \E l \in {EN, FR} : locale' = l
    /\ i18n_changed' = TRUE
    /\ cleanPasses' = 0
    /\ UNCHANGED <<pc, FONT_FAMILIES, font_manager, load_requests, loaded,
                   FontsLoading, commands, existed, world, todo, flagPrev,
                   sigChanged, fired, runs, scanned>>

\* ---------------------------------------------------------------- init
\* the labels the scene layer may have spawned, by kind
Label(l, f) == [keyed |-> TRUE, key |-> "greeting", locale |-> l, family |-> f,
                text |-> "", font |-> HostHandle]
\* an entity without I18nText
Plain == [keyed |-> FALSE, key |-> "", locale |-> None, family |-> NoFont,
          text |-> "", font |-> HostHandle]
EntityConfigs ==
    <<Label(None, "sans"), Label(FR, "sans"), Label(None, NoFont), Plain>>

\* the scenes: the query visits the entities in any order, so a scene is
\* given by how many entities of each kind it holds
Scenes ==
    {[e \in Entities |-> EntityConfigs[k[e]]] :
        k \in {c \in [Entities -> 1..Len(EntityConfigs)] :
                 \A i, j \in Entities : i < j => c[i] <= c[j]}}

\* the state I18nPlugin::build leaves: the three resources initialised, no
\* system run yet
InitWith(tables) ==
    /\ pc = "prestartup"
    /\ FONT_FAMILIES \in tables
    /\ font_manager = <<>>
    /\ load_requests = <<>>
    /\ loaded = {}
    /\ FontsLoading = TRUE
    /\ commands = FALSE
    /\ existed = FALSE
    /\ locale = EN
    /\ i18n_changed = TRUE
    /\ world \in Scenes
    /\ todo = Systems
    /\ flagPrev = TRUE
    /\ sigChanged = FALSE
    /\ fired = {}
    /\ runs = 0
    /\ cleanPasses = 0
    /\ scanned = FALSE

Init == InitWith(FamilyTables(FileNames, MaxFiles, MaxFiles))

Next ==
    \/ load_dynamic_fonts
    \/ monitor_font_loading
    \/ update_on_removed
    \/ update_on_changed
    \/ EndTick
    \/ AssetLoaded
    \/ AssetUnloaded
    \/ SetLocale

Spec == Init /\ [][Next]_vars

\* the runs in which a handle, once loaded, stays loaded
StableNext ==
    \/ load_dynamic_fonts
    \/ monitor_font_loading
    \/ update_on_removed
    \/ update_on_changed
    \/ EndTick
    \/ AssetLoaded
    \/ SetLocale

StableSpec == Init /\ [][StableNext]_vars

\* the scheduler runs every system of Update on every tick and ends the
\* tick, and the asset service finishes every load it was asked for; the
\* host need not ever touch I18n
FairSpec ==
    /\ StableSpec
    /\ WF_vars(load_dynamic_fonts)
    /\ WF_vars(monitor_font_loading)
    /\ WF_vars(update_on_removed)
    /\ WF_vars(update_on_changed)
    /\ WF_vars(EndTick)
    /\ WF_vars(AssetLoaded)

\* the startup model: the wider tables, and the startup system alone
StartupInit == InitWith(FamilyTables(StartupFileNames, MaxLocales,
                                     MaxLocales * Len(FamilyOrder)))

StartupNext == load_dynamic_fonts

StartupSpec == StartupInit /\ [][StartupNext]_vars

\* ---------------------------------------------------------------- claims
\* every handle of every FontFolder, the fallback included, is loaded
EveryHandleLoaded ==
    \A family \in DOMAIN font_manager :
        /\ font_manager[family].fallback \in loaded
        /\ \A l \in DOMAIN font_manager[family].fonts :
              font_manager[family].fonts[l] \in loaded

\* C1: on a tick where some handle of some family record, the fallback
\* handle included, is not ready, the monitor does not remove the flag; it
\* queues the removal only on a tick where all of them are ready.
C1_MonitorWaitsForEveryHandle == commands => EveryHandleLoaded

\* C2, as claimed: on the tick where the monitor finds the handles ready,
\* the pass triggered by the removal has run by the end of that tick.
C2_RemovalRefreshSameTick ==
    (commands /\ todo = {}) => "removed" \in fired

\* C2, amended: on the tick where the monitor finds the handles ready it
\* only queues the removal: FontsLoading still exists for the rest of that
\* tick and no pass triggered by the removal runs in it; the removal is
\* applied when the systems of the tick have run, and the pass it triggers
\* runs on the following tick, the first one FontsLoading is absent in.
C2_RemovalRefreshNextTick ==
    /\ commands => (FontsLoading /\ "removed" \notin fired)
    /\ "removed" \in fired => (flagPrev /\ ~FontsLoading)
    /\ (flagPrev /\ ~FontsLoading /\ "removed" \notin todo)
          => "removed" \in fired

C2_Witness == "removed" \in fired /\ flagPrev /\ ~FontsLoading

\* C3: update_translations runs at most once per tick, also on a tick where
\* both the removal of FontsLoading and the change of I18n trigger it.
C3_AtMostOnePassPerTick == runs <= 1

\* the removal edge of this tick: FontsLoading existed during the previous
\* tick and does not exist in this one
RemovalEdge == flagPrev /\ ~FontsLoading

\* C4: a pass runs, and a display field of an entity changes, only in a
\* step that is a run of update_translations on a tick where FontsLoading
\* went from present to absent or resource_changed::<I18n> answered true.
C4_TriggerPrecision ==
    [][(runs' > runs \/ world' # world)
          => (runs' = runs + 1 /\ (RemovalEdge \/ sigChanged'))]_vars

\* a tick of READY, after the passes, that ran every system and no pass
C4_Witness ==
    /\ todo = {}
    /\ runs = 0
    /\ ~FontsLoading
    /\ ~flagPrev
    /\ cleanPasses > 0

\* the entity names a family that is no key of FontManager.fonts
MissingFamily(ent) ==
    ent.keyed /\ ent.family # NoFont /\ ent.family \notin DOMAIN font_manager

\* C5: a pass leaves the font of a label whose family is not in the table
\* as it was before the pass, and still updates every other label.
C5_MissingFamilyKeepsFont ==
    [][runs' = runs + 1
          => \A e \in Entities :
                IF MissingFamily(world[e])
                THEN world'[e].font = world[e].font
                ELSE world'[e] = UpdateEntity(world[e], font_manager, locale)]_vars

\* C6: after a pass, a label whose family is in the table holds the handle
\* fonts[effective locale] of that family if the key exists and the fallback
\* of the family otherwise, the effective locale being the label's own
\* locale if it has one and the active locale otherwise.
C6_FallbackCorrectness ==
    cleanPasses >= 1 =>
        \A e \in Entities :
            (world[e].keyed /\ world[e].family \in DOMAIN font_manager) =>
                LET folder == font_manager[world[e].family]
                    eff == IF world[e].locale # None THEN world[e].locale
                           ELSE locale
                IN  world[e].font = IF eff \in DOMAIN folder.fonts
                                    THEN folder.fonts[eff]
                                    ELSE folder.fallback

\* a label with a locale of its own got that locale's font, while another
\* label of the same family got the fallback
C6_Witness ==
    /\ cleanPasses >= 1
    /\ \E e \in Entities :
          /\ world[e].family \in DOMAIN font_manager
          /\ world[e].locale = FR
          /\ locale = EN
          /\ FR \in DOMAIN font_manager[world[e].family].fonts
          /\ world[e].font = font_manager[world[e].family].fonts[FR]
    /\ \E e \in Entities :
          /\ world[e].family \in DOMAIN font_manager
          /\ world[e].locale = None
          /\ world[e].font = font_manager[world[e].family].fallback

\* the text of every label is its translation for the state I18n is in
TextsCurrent ==
    \A e \in Entities :
        world[e].keyed =>
            world[e].text = Translate(world[e].key,
                                      IF world[e].locale # None
                                      THEN world[e].locale ELSE locale)

C8_Idempotence ==
    [][(runs' = runs + 1 /\ cleanPasses >= 1) => world' = world]_vars

\* two passes in a row over a scene of two different labels
C8_Witness ==
    /\ cleanPasses = 2
    /\ \E e1, e2 \in Entities :
          world[e1].keyed /\ world[e2].keyed /\ world[e1].locale # world[e2].locale

\* the file name has nothing before its first separator
NoLocaleCode(file) == Len(file) >= 1 /\ file[1] = DOT

\* C9: a table that lists a file name with no locale code aborts startup,
\* and no font is inserted under the empty locale code.
C9_MalformedFilenameAborts ==
    (/\ pc # "prestartup"
     /\ \E i \in 1..Len(FONT_FAMILIES) :
           \E j \in 1..Len(FONT_FAMILIES[i].locales) :
               NoLocaleCode(FONT_FAMILIES[i].locales[j]))
        => /\ pc = "aborted"
           /\ \A family \in DOMAIN font_manager :
                 <<>> \notin DOMAIN font_manager[family].fonts

\* C10: FontsLoading exists at startup, and once it has been removed it
\* does not exist in any later state.
C10_FlagNeverReAdded ==
    /\ [](pc = "prestartup" => FontsLoading)
    /\ [][~FontsLoading => ~FontsLoading']_vars

\* FontsLoading has been absent for more than a tick
C10_Witness == ~FontsLoading /\ ~flagPrev /\ todo = {}

\* the handles the table holds, fallback handles included
StoredHandles ==
    UNION {{font_manager[family].fallback}
              \cup {font_manager[family].fonts[l] :
                      l \in DOMAIN font_manager[family].fonts} :
           family \in DOMAIN font_manager}

\* C11: while a handle the table holds, a fallback or a per-locale one, has
\* not become ready, FontsLoading exists (in the runs where a loaded handle
\* stays loaded, a handle not loaded now never was).
C11_UnreadyHandleKeepsLoading ==
    (pc = "update" /\ \E h \in StoredHandles : h \notin loaded) => FontsLoading

\* C12: a pass changes nothing but the text and the font of entities that
\* have I18nText: an entity without it keeps every field, a label without
\* I18nFont keeps its font, the components the pass reads stay as they are
\* and the set of entities stays the same.
C12_PassWritesDisplayFieldsOnly ==
    [][runs' = runs + 1
          => /\ DOMAIN world' = DOMAIN world
             /\ \A e \in DOMAIN world :
                   /\ ~world[e].keyed => world'[e] = world[e]
                   /\ world[e].family = NoFont
                         => world'[e].font = world[e].font
                   /\ world'[e] = [world[e] EXCEPT
                                      !.text = world'[e].text,
                                      !.font = world'[e].font]]_vars

\* a pass has rewritten the text of a label without I18nFont, next to an
\* entity without I18nText
C12_Witness ==
    /\ cleanPasses >= 1
    /\ \E e \in Entities : ~world[e].keyed /\ world[e].font = HostHandle
    /\ \E e \in Entities :
          /\ world[e].keyed
          /\ world[e].family = NoFont
          /\ world[e].text # ""
          /\ world[e].font = HostHandle

\* C13: a pass triggered by the removal of FontsLoading runs on the tick of
\* the removal edge alone, once; that tick comes once; and on every later
\* tick a pass that runs is the one pass triggered by a change of I18n.
C13_RemovalTriggersOnePass ==
    /\ []("removed" \in fired => RemovalEdge)
    /\ []((RemovalEdge /\ todo = {})
             => /\ "removed" \in fired
                /\ runs = IF sigChanged THEN 2 ELSE 1)
    /\ []((~FontsLoading /\ ~flagPrev /\ runs > 0)
             => (sigChanged /\ fired = {"changed"} /\ runs = 1))
    /\ [][(~FontsLoading /\ ~flagPrev)
             => (~FontsLoading' /\ ~flagPrev')]_vars

\* a tick after the tick of the removal edge, on which a change of I18n
\* triggered a pass
C13_Witness ==
    /\ ~FontsLoading
    /\ ~flagPrev
    /\ ~existed
    /\ fired = {"changed"}

\* C14: when the scheduler keeps ticking and every handle becomes and
\* stays ready, FontsLoading is eventually removed and a pass runs on a tick
\* on which every handle of the table, fallback handles included, is ready.
C14_RefreshAfterAllReady ==
    <>(pc = "update" /\ ~FontsLoading /\ EveryHandleLoaded /\ runs > 0)

\* C15: the body of the monitor runs on every tick on which FontsLoading
\* exists and on no tick on which it does not: once the resource is removed
\* the monitor scans no handle and queues no removal, whatever the handles
\* report.
C15_MonitorGatedOnFlag ==
    /\ (pc = "update" /\ FontsLoading /\ "monitor" \notin todo) => scanned
    /\ ~FontsLoading => (~scanned /\ ~commands)

\* the monitor had its turn on a tick without FontsLoading on which a
\* per-locale handle reports not loaded
C15_Witness ==
    /\ ~FontsLoading
    /\ "monitor" \notin todo
    /\ ~scanned
    /\ \E family \in DOMAIN font_manager :
          \E l \in DOMAIN font_manager[family].fonts :
              font_manager[family].fonts[l] \notin loaded

\* a handle the monitor queries is not loaded
SomeFontNotLoaded ==
    \E family \in DOMAIN font_manager :
        \E l \in DOMAIN font_manager[family].fonts :
            font_manager[family].fonts[l] \notin loaded

\* C16: after startup no step changes the table; a pass changes neither
\* the table nor FontsLoading nor the queue of commands; and a turn of the
\* monitor that finds a handle not loaded changes no resource, no command
\* and no entity.
C16_SingleWriters ==
    [][/\ pc = "update" => font_manager' = font_manager
       /\ runs' = runs + 1
             => UNCHANGED <<font_manager, FontsLoading, commands>>
       /\ ("monitor" \in todo /\ "monitor" \notin todo'
              /\ FontsLoading /\ SomeFontNotLoaded)
             => UNCHANGED <<font_manager, loaded, FontsLoading, commands,
                            existed, locale, i18n_changed, world>>]_vars

\* the monitor has scanned on this tick, found a handle not loaded and
\* queued nothing, and a pass has run on the same tick
C16_Witness ==
    /\ FontsLoading
    /\ scanned
    /\ SomeFontNotLoaded
    /\ ~commands
    /\ runs > 0

\* the text of a file name before its first separator
CodeOf(file) ==
    IF FirstDot(file) = 0 THEN file ELSE SubSeq(file, 1, FirstDot(file) - 1)

\* how often the path was asked for
RequestsFor(h) ==
    Cardinality({k \in 1..Len(load_requests) : load_requests[k] = h})

\* C17: startup asks for every file once, the fallback and every locale
\* file of every family, and afterwards the fonts map of the family holds,
\* for every locale file, the handle of that file under the text before the
\* first separator of its name.
C17_OneRequestAndOneEntryPerFile ==
    pc = "update" =>
        /\ Len(load_requests) = Len(FONT_FAMILIES) + FilesIn(FONT_FAMILIES)
        /\ \A i \in 1..Len(FONT_FAMILIES) :
              LET dyn_font == FONT_FAMILIES[i]
              IN  /\ RequestsFor(Handle(dyn_font.path, FallbackTtf)) = 1
                  /\ \A j \in 1..Len(dyn_font.locales) :
                        LET file == dyn_font.locales[j]
                            fonts == font_manager[dyn_font.family].fonts
                        IN  /\ RequestsFor(Handle(dyn_font.path, file)) = 1
                            /\ CodeOf(file) \in DOMAIN fonts
                            /\ fonts[CodeOf(file)] = Handle(dyn_font.path, file)

\* C18: once FontsLoading is removed, every handle a pass has written from
\* the table into the font of a label, a per-locale handle or a fallback
\* handle, is a handle that was ready (in the runs where a loaded handle
\* stays loaded, a handle not loaded now never was).
C18_WrittenFontsWereReady ==
    (~FontsLoading /\ runs > 0) =>
        \A e \in Entities :
            (world[e].keyed /\ world[e].family \in DOMAIN font_manager)
                => world[e].font \in loaded

\* every label holds the text and, with I18nFont, the font the table gives
\* for the state I18n is in
DisplayResolved ==
    \A e \in Entities :
        world[e].keyed =>
            /\ world[e].text = I18nTextTranslate(world[e], locale)
            /\ world[e].family # NoFont =>
                  world[e].font = FontManagerGet(font_manager, world[e].family,
                                                 world[e].locale, locale)

\* C19: on a tick on which FontsLoading exists and resource_changed::<I18n>
\* answers true, the pass runs and assigns text and font from the table,
\* ready or not; it does so on the first tick, I18n being freshly added;
\* and a pass run while FontsLoading exists neither removes it nor queues
\* its removal.
C19_RefreshNotGatedOnFlag ==
    /\ []((FontsLoading /\ sigChanged)
             => /\ "changed" \in fired
                /\ (~i18n_changed => DisplayResolved))
    /\ []((pc = "update" /\ "changed" \notin todo)
             => \A e \in Entities : world[e].keyed => world[e].text # "")
    /\ [][(FontsLoading /\ runs' = runs + 1)
             => (FontsLoading' /\ commands' = commands)]_vars

\* while FontsLoading exists a pass has given a label a handle of the table
\* that is not loaded
C19_Witness ==
    /\ FontsLoading
    /\ sigChanged
    /\ \E e \in Entities :
          /\ world[e].keyed
          /\ world[e].family \in DOMAIN font_manager
          /\ world[e].font \in StoredHandles
          /\ world[e].font \notin loaded

\* the static table lists no locale file: it is empty, or every family
\* lists none
NoLocaleFiles ==
    \A i \in 1..Len(FONT_FAMILIES) : FONT_FAMILIES[i].locales = <<>>

====
